---- MODULE Spec2Model ----
(***************************************************************************)
(* Taskly (src/cli.js): a command-line to-do list that keeps its tasks in  *)
(* one JSON file.  Every invocation of the program is one step of the      *)
(* model: it loads the file, runs one command handler and possibly saves.  *)
(*                                                                         *)
(* Strings are sequences of one-character strings, so that startsWith,     *)
(* split, join and parseInt are computed character by character.           *)
(***************************************************************************)
EXTENDS Integers, Sequences, FiniteSets

\* ------------------------------------------------------------------ bounds
\* Invocations per run: the wall clock advances by one per invocation.
MaxClock == 4
\* Tasks an add may grow the store to.
MaxTasks == 3

\* ----------------------------------------------------------------- strings
sDashDash == <<"-", "-">>
sPriorityEq == <<"-", "-", "p", "r", "i", "o", "r", "i", "t", "y", "=">>
sHigh == <<"h", "i", "g", "h">>
sMedium == <<"m", "e", "d", "i", "u", "m">>
sLow == <<"l", "o", "w">>
sBogus == <<"b", "o", "g", "u", "s">>
sCompleted == <<"-", "-", "c", "o", "m", "p", "l", "e", "t", "e", "d">>
sPending == <<"-", "-", "p", "e", "n", "d", "i", "n", "g">>

\* String.prototype.startsWith
StartsWith(s, p) == Len(s) >= Len(p) /\ SubSeq(s, 1, Len(p)) = p

\* Array.prototype.filter(arg => !arg.startsWith('--'))
RECURSIVE NonFlags(_)
NonFlags(a) ==
  IF a = <<>> THEN <<>>
  ELSE IF StartsWith(Head(a), sDashDash) THEN NonFlags(Tail(a))
  ELSE <<Head(a)>> \o NonFlags(Tail(a))

\* Array.prototype.join(' ')
RECURSIVE Join(_)
Join(a) ==
  IF a = <<>> THEN <<>>
  ELSE IF Len(a) = 1 THEN Head(a)
  ELSE Head(a) \o <<" ">> \o Join(Tail(a))

\* Array.prototype.find(arg => arg.startsWith('--priority=')): the matches, in
\* order; find yields the first, or undefined when there is none.
RECURSIVE PriorityArgs(_)
PriorityArgs(a) ==
  IF a = <<>> THEN <<>>
  ELSE IF StartsWith(Head(a), sPriorityEq) THEN <<Head(a)>> \o PriorityArgs(Tail(a))
  ELSE PriorityArgs(Tail(a))

\* s.split('='): the pieces of s between the '=' characters.
RECURSIVE Split(_)
Split(s) ==
  IF \A i \in 1..Len(s) : s[i] # "="
  THEN <<s>>
  ELSE LET i == CHOOSE j \in 1..Len(s) : s[j] = "=" /\ \A k \in 1..(j - 1) : s[k] # "="
       IN <<SubSeq(s, 1, i - 1)>> \o Split(SubSeq(s, i + 1, Len(s)))

\* ---------------------------------------------------------------- numbers
\* A JavaScript number is NaN or an integer; undefined compares like NaN.
NaN == [nan |-> TRUE, val |-> 0]
Num(n) == [nan |-> FALSE, val |-> n]
JsLt(a, b) == ~a.nan /\ ~b.nan /\ a.val < b.val
JsGt(a, b) == ~a.nan /\ ~b.nan /\ a.val > b.val

HexDigits == <<"0", "1", "2", "3", "4", "5", "6", "7", "8", "9",
               "a", "b", "c", "d", "e", "f">>
\* The value of character c as a digit of the radix, or -1.
DigitVal(c, radix) ==
  IF \E i \in 1..radix : HexDigits[i] = c
  THEN (CHOOSE i \in 1..radix : HexDigits[i] = c) - 1
  ELSE -1

RECURSIVE SkipSpace(_)
SkipSpace(s) == IF s # <<>> /\ Head(s) = " " THEN SkipSpace(Tail(s)) ELSE s

\* The number the leading digits of s spell, from the accumulator acc on;
\* NaN when s starts with no digit and none was read.
RECURSIVE Digits(_, _, _, _)
Digits(s, radix, acc, any) ==
  IF s # <<>> /\ DigitVal(Head(s), radix) >= 0
  THEN Digits(Tail(s), radix, acc * radix + DigitVal(Head(s), radix), TRUE)
  ELSE IF any THEN Num(acc) ELSE NaN

\* parseInt(string) with no radix: leading white space is skipped, a sign is
\* read, a 0x prefix selects radix 16, the longest prefix of digits is
\* converted and the rest ignored; NaN when there is no digit.
ParseInt(str) ==
  LET t == SkipSpace(str)
      neg == t # <<>> /\ Head(t) = "-"
      u == IF t # <<>> /\ Head(t) \in {"-", "+"} THEN Tail(t) ELSE t
      hex == Len(u) >= 2 /\ u[1] = "0" /\ u[2] \in {"x", "X"}
      d == IF hex THEN Digits(SubSeq(u, 3, Len(u)), 16, 0, FALSE)
           ELSE Digits(u, 10, 0, FALSE)
  IN IF d.nan THEN NaN ELSE IF neg THEN Num(0 - d.val) ELSE d

\* ------------------------------------------------------------ the store file
\* What JSON.parse yields for the text of the file: an array of tasks, or one
\* of the JSON values that are no array (null, {}, 5, "ab", "").  A file that
\* is absent, or whose text is no JSON, has no value.
Arr(tasks) == [kind |-> "array", tasks |-> tasks]
NonArrayKinds == {"null", "object", "number", "string", "emptystring"}
NonArr(k) == [kind |-> k, tasks |-> <<>>]
Absent == [kind |-> "absent", tasks |-> <<>>]
Corrupt == [kind |-> "corrupt", tasks |-> <<>>]
\* The two characters of the JSON string "ab".
sAb == <<"a", "b">>

\* loadTasks(): the value returned, and whether the catch branch reported an
\* error.  readErr is whether readFileSync throws on an existing file.
loadTasks(f, readErr) ==
  IF f.kind = "absent" THEN [value |-> Arr(<<>>), err |-> FALSE]
  ELSE IF readErr \/ f.kind = "corrupt" THEN [value |-> Arr(<<>>), err |-> TRUE]
  ELSE [value |-> f, err |-> FALSE]

\* Mutant of writeFileSync: the text is appended to the file, which then is
\* no JSON unless it was absent.
writeFileSync_Append(f, data) == IF f.kind = "absent" THEN data ELSE Corrupt

\* fs.writeFileSync(TASKS_FILE, JSON.stringify(tasks, null, 2)): the new content.
writeFileSync(f, data) == data

\* saveTasks(tasks): the file afterwards, and whether the catch branch
\* reported an error.  writeErr is whether writeFileSync throws; a failed
\* write leaves the file as it was.
saveTasks(f, tasks, writeErr) ==
  IF writeErr THEN [file |-> f, err |-> TRUE]
  ELSE [file |-> writeFileSync(f, tasks), err |-> FALSE]

\* generateId(): the time in base 36 followed by random digits.
generateId(now, rnd) == <<now, rnd>>

\* value.length: undefined (NaN in a comparison) where there is no such property.
Length(v) ==
  IF v.kind = "array" THEN Num(Len(v.tasks))
  ELSE IF v.kind = "string" THEN Num(Len(sAb))
  ELSE IF v.kind = "emptystring" THEN Num(0)
  ELSE NaN

\* ------------------------------------------------------- what a run leaves
\* file: the store file afterwards; exit: the exit status; out: the messages
\* printed; loads: the values loadTasks returned; saves: the values handed to
\* saveTasks; wrote: a write succeeded; lines: the task lines list printed.
Result(f, ex, o, ld, sv, wr, ln) ==
  [file |-> f, exit |-> ex, out |-> o, loads |-> ld, saves |-> sv,
   wrote |-> wr, lines |-> ln]

LoadErr(l) == IF l.err THEN <<"Error loading tasks">> ELSE <<>>
SaveErr(s) == IF s.err THEN <<"Error saving tasks">> ELSE <<>>

\* An uncaught TypeError ends the process with status 1.
Crash(f, o, ld, sv, wr) == Result(f, 1, o \o <<"TypeError">>, ld, sv, wr, <<>>)

\* ------------------------------------------------------------------- add
ValidPriorities == {sHigh, sMedium, sLow}

Title(args) == Join(NonFlags(args))

Priority(args) ==
  IF PriorityArgs(args) # <<>> THEN Split(Head(PriorityArgs(args)))[2] ELSE sLow

NewTask(title, priority, now, rnd) ==
  [id |-> generateId(now, rnd), title |-> title, priority |-> priority,
   completed |-> FALSE, created |-> now]

\* Mutant of Push: unshift, the new task goes first.
Push_Unshift(tasks, t) == <<t>> \o tasks

\* tasks.push(newTask)
Push(tasks, t) == Append(tasks, t)

add(args, f, now, rnd, readErr, writeErr) ==
  IF Len(args) = 0
  THEN Result(f, 1, <<"Usage: taskly add">>, <<>>, <<>>, FALSE, <<>>)
  ELSE IF Priority(args) \notin ValidPriorities
  THEN Result(f, 1, <<"Priority must be">>, <<>>, <<>>, FALSE, <<>>)
  ELSE
    LET l == loadTasks(f, readErr)
        v == l.value
    IN IF v.kind # "array"
       THEN Crash(f, LoadErr(l), <<v>>, <<>>, FALSE)
       ELSE
         LET tasks == Arr(Push(v.tasks, NewTask(Title(args), Priority(args), now, rnd)))
             s == saveTasks(f, tasks, writeErr)
         IN Result(s.file, 0,
                   LoadErr(l) \o SaveErr(s) \o <<"Task added successfully!">>,
                   <<v>>, <<tasks>>, ~s.err, <<>>)

\* ------------------------------------------------------------------ list
\* args.includes(x)
Includes(args, x) == \E i \in 1..Len(args) : args[i] = x

Filter(args) ==
  IF Includes(args, sCompleted) THEN "completed"
  ELSE IF Includes(args, sPending) THEN "pending"
  ELSE "all"

\* tasks.filter(...): the positions, in the stored sequence, of the tasks kept.
RECURSIVE FilterTasks(_, _, _)
FilterTasks(tasks, filter, i) ==
  IF i > Len(tasks) THEN <<>>
  ELSE IF \/ filter = "all"
          \/ filter = "completed" /\ tasks[i].completed
          \/ filter = "pending" /\ ~tasks[i].completed
  THEN <<i>> \o FilterTasks(tasks, filter, i + 1)
  ELSE FilterTasks(tasks, filter, i + 1)

\* formatTask(task, index): the line printed.  pos is not printed: it records
\* the position in the stored sequence of the task the line shows.
formatTask(task, index, pos) ==
  [num |-> index + 1,
   status |-> IF task.completed THEN "done" ELSE "todo",
   priority |-> IF task.priority = sHigh THEN "red"
                ELSE IF task.priority = sMedium THEN "yellow" ELSE "green",
   title |-> task.title,
   pos |-> pos]

\* Mutant of NoTasks: the early return of list is missing.
NoTasks_Never(v) == FALSE

\* tasks.length === 0, the early return of list
NoTasks(v) == Length(v) = Num(0)

list(args, f, readErr) ==
  LET l == loadTasks(f, readErr)
      v == l.value
      filter == Filter(args)
      kept == FilterTasks(v.tasks, filter, 1)
      header == IF filter = "all" THEN "Tasks (all):"
                ELSE IF filter = "completed" THEN "Tasks (completed):"
                ELSE "Tasks (pending):"
      none == IF filter = "all" THEN "No all tasks found."
              ELSE IF filter = "completed" THEN "No completed tasks found."
              ELSE "No pending tasks found."
  IN IF v.kind = "null"
     THEN Crash(f, LoadErr(l), <<v>>, <<>>, FALSE)
     ELSE IF NoTasks(v)
     THEN Result(f, 0, LoadErr(l) \o <<"No tasks found.">>, <<v>>, <<>>, FALSE, <<>>)
     ELSE IF v.kind # "array"
     THEN \* filter and forEach are no functions of an object, a number or a string
          Crash(f, LoadErr(l) \o (IF filter = "all" THEN <<header>> ELSE <<>>),
                <<v>>, <<>>, FALSE)
     ELSE IF Len(kept) = 0
     THEN Result(f, 0, LoadErr(l) \o <<header, none>>, <<v>>, <<>>, FALSE, <<>>)
     ELSE Result(f, 0, LoadErr(l) \o <<header, "Total">>, <<v>>, <<>>, FALSE,
                 [k \in 1..Len(kept) |-> formatTask(v.tasks[kept[k]], k - 1, kept[k])])

\* -------------------------------------------------------- complete, remove
\* Mutant of InvalidTaskNumber: the lower bound is 0, not 1.
InvalidTaskNumber_FromZero(taskNumber, length) ==
  taskNumber.nan \/ JsLt(taskNumber, Num(0)) \/ JsGt(taskNumber, length)

\* isNaN(taskNumber) || taskNumber < 1 || taskNumber > tasks.length
InvalidTaskNumber(taskNumber, length) ==
  taskNumber.nan \/ JsLt(taskNumber, Num(1)) \/ JsGt(taskNumber, length)

\* Mutant of Minus1: the task number is used as the index.
Minus1_Forgotten(n) == n

\* taskNumber - 1
Minus1(n) == IF n.nan THEN NaN ELSE Num(n.val - 1)

\* tasks[index] is an element of the array
HasIndex(tasks, index) == ~index.nan /\ index.val >= 0 /\ index.val < Len(tasks)

\* Mutant of AlreadyCompleted: the no-op branch is never taken.
AlreadyCompleted_Never(task) == FALSE

\* task.completed, the test of the no-op branch
AlreadyCompleted(task) == task.completed

\* Mutant of CompleteTask: completedAt is not set.
CompleteTask_NoTimestamp(task, now) ==
  [id |-> task.id, title |-> task.title, priority |-> task.priority,
   completed |-> TRUE, created |-> task.created]

\* task.completed = true; task.completedAt = new Date().toISOString()
CompleteTask(task, now) ==
  [id |-> task.id, title |-> task.title, priority |-> task.priority,
   completed |-> TRUE, created |-> task.created, completedAt |-> now]

complete(args, f, now, readErr, writeErr) ==
  IF Len(args) = 0
  THEN Result(f, 1, <<"Usage: taskly complete">>, <<>>, <<>>, FALSE, <<>>)
  ELSE
    LET taskNumber == ParseInt(args[1])
        l == loadTasks(f, readErr)
        v == l.value
        index == Minus1(taskNumber)
    IN IF v.kind = "null"
       THEN Crash(f, LoadErr(l), <<v>>, <<>>, FALSE)
       ELSE IF InvalidTaskNumber(taskNumber, Length(v))
       THEN Result(f, 1, LoadErr(l) \o <<"Invalid task number">>, <<v>>, <<>>, FALSE, <<>>)
       ELSE IF v.kind = "string" /\ ~index.nan /\ index.val \in 0..(Len(sAb) - 1)
       THEN \* a character has no completed property and ignores the assignments
            LET s == saveTasks(f, v, writeErr)
            IN Result(s.file, 0, LoadErr(l) \o SaveErr(s) \o <<"Task completed!">>,
                      <<v>>, <<v>>, ~s.err, <<>>)
       ELSE IF v.kind # "array" \/ ~HasIndex(v.tasks, index)
       THEN \* task is undefined
            Crash(f, LoadErr(l), <<v>>, <<>>, FALSE)
       ELSE IF AlreadyCompleted(v.tasks[index.val + 1])
       THEN Result(f, 0, LoadErr(l) \o <<"Task is already completed!">>,
                   <<v>>, <<>>, FALSE, <<>>)
       ELSE
         LET tasks == Arr([v.tasks EXCEPT ![index.val + 1] = CompleteTask(@, now)])
             s == saveTasks(f, tasks, writeErr)
         IN Result(s.file, 0, LoadErr(l) \o SaveErr(s) \o <<"Task completed!">>,
                   <<v>>, <<tasks>>, ~s.err, <<>>)

\* tasks.splice(start, 1): the elements removed and the elements left.  A NaN
\* start counts as 0, a negative start counts from the end.
Splice(tasks, start) ==
  LET len == Len(tasks)
      rel == IF start.nan THEN 0 ELSE start.val
      from == IF rel < 0 THEN (IF len + rel > 0 THEN len + rel ELSE 0)
              ELSE IF rel < len THEN rel ELSE len
      count == IF len - from < 1 THEN len - from ELSE 1
  IN [removed |-> SubSeq(tasks, from + 1, from + count),
      left |-> SubSeq(tasks, 1, from) \o SubSeq(tasks, from + count + 1, len)]

remove(args, f, readErr, writeErr) ==
  IF Len(args) = 0
  THEN Result(f, 1, <<"Usage: taskly remove">>, <<>>, <<>>, FALSE, <<>>)
  ELSE
    LET taskNumber == ParseInt(args[1])
        l == loadTasks(f, readErr)
        v == l.value
    IN IF v.kind = "null"
       THEN Crash(f, LoadErr(l), <<v>>, <<>>, FALSE)
       ELSE IF InvalidTaskNumber(taskNumber, Length(v))
       THEN Result(f, 1, LoadErr(l) \o <<"Invalid task number">>, <<v>>, <<>>, FALSE, <<>>)
       ELSE IF v.kind # "array"
       THEN \* splice is no function of an object, a number or a string
            Crash(f, LoadErr(l), <<v>>, <<>>, FALSE)
       ELSE
         LET sp == Splice(v.tasks, Minus1(taskNumber))
             tasks == Arr(sp.left)
             s == saveTasks(f, tasks, writeErr)
             o == LoadErr(l) \o SaveErr(s) \o <<"Task removed!">>
         IN IF sp.removed = <<>>
            THEN \* removedTask is undefined
                 Crash(s.file, o, <<v>>, <<tasks>>, ~s.err)
            ELSE Result(s.file, 0, o, <<v>>, <<tasks>>, ~s.err, <<>>)

\* ------------------------------------------------------------------ init
\* Prints, waits a second, prints again; touches no file.
init(args, f) ==
  Result(f, 0, <<"Initializing Taskly workspace...", "Taskly initialized successfully!">>,
         <<>>, <<>>, FALSE, <<>>)

\* ----------------------------------------------------------------- state
VARIABLES
  file,     \* the store file: Absent, Corrupt, or the JSON value its text denotes
  clock,    \* the wall clock (Date.now, new Date)
  prev,     \* the store file before the last invocation
  cmd,      \* the command of the last invocation
  args,     \* its arguments (commandArgs)
  exit,     \* its exit status
  out,      \* the messages it printed
  loads,    \* the values its loadTasks calls returned
  saves,    \* the values it handed to saveTasks
  wrote,    \* whether a write of it succeeded
  lines,    \* the task lines it printed
  pc,       \* two concurrent invocations: where each process is
  job,      \* what each process loaded and is about to save
  lastWrite \* the last successful write of a concurrent invocation

hist == <<prev, cmd, args, exit, out, loads, saves, wrote, lines>>
race == <<pc, job, lastWrite>>
vars == <<file, clock, prev, cmd, args, exit, out, loads, saves, wrote, lines,
          pc, job, lastWrite>>

\* ---------------------------------------------------------------- inputs
sA == <<"a">>
sX == <<"-", "-", "x">>
sAddHigh == sPriorityEq \o sHigh
sAddMedium == sPriorityEq \o sMedium
sAddBogus == sPriorityEq \o sBogus
AddArgs ==
  {<<>>, <<sA>>, <<sA, sA>>, <<sX>>, <<sAddHigh>>, <<sA, sAddHigh>>,
   <<sAddMedium, sA>>, <<sAddHigh, sAddBogus>>, <<sA, sAddBogus>>}
ListArgs == {<<>>, <<sCompleted>>, <<sPending>>, <<sPending, sCompleted>>}
\* The decimal numeral of a number below ten.
Numeral(n) == <<HexDigits[n + 1]>>
NumberWords ==
  {Numeral(n) : n \in 0..(MaxTasks + 1)}
    \cup {<<>>, <<"a">>, <<"-", "1">>, <<"2", "a">>, <<" ", "1">>, <<"0", "x", "3">>}
NumberArgs == {<<>>} \cup {<<x>> : x \in NumberWords}
InitArgs == {<<>>, <<sA>>}
\* The random part of an id.  No command reads an id, so one value stands for
\* all: two tasks made at the same time would share their id, as they may in
\* the program.
Randoms == {0}

\* ------------------------------------------------------------------ steps
\* One invocation of the program: main dispatches to the handler, which runs
\* to its end.  r is what the handler leaves.
Invoke(c, a, r) ==
  /\ clock' = clock + 1
  /\ prev' = file
  /\ file' = r.file
  /\ cmd' = c
  /\ args' = a
  /\ exit' = r.exit
  /\ out' = r.out
  /\ loads' = r.loads
  /\ saves' = r.saves
  /\ wrote' = r.wrote
  /\ lines' = r.lines
  /\ UNCHANGED race

RunAdd ==
  /\ clock < MaxClock
  /\ Len(file.tasks) < MaxTasks
  /\ \E a \in AddArgs, rnd \in Randoms, readErr, writeErr \in BOOLEAN :
       Invoke("add", a, add(a, file, clock + 1, rnd, readErr, writeErr))

RunList ==
  /\ clock < MaxClock
  /\ \E a \in ListArgs, readErr \in BOOLEAN :
       Invoke("list", a, list(a, file, readErr))

RunComplete ==
  /\ clock < MaxClock
  /\ \E a \in NumberArgs, readErr, writeErr \in BOOLEAN :
       Invoke("complete", a, complete(a, file, clock + 1, readErr, writeErr))

RunRemove ==
  /\ clock < MaxClock
  /\ \E a \in NumberArgs, readErr, writeErr \in BOOLEAN :
       Invoke("remove", a, remove(a, file, readErr, writeErr))

RunInit ==
  /\ clock < MaxClock
  /\ \E a \in InitArgs : Invoke("init", a, init(a, file))

\* No concurrent invocation is running.
Procs == {1, 2}
NoJob == [cmd |-> "none", loaded |-> Absent, saving |-> FALSE, data |-> Absent,
          exit |-> 0, wrote |-> FALSE]
NoWrite == [proc |-> 0, cmd |-> "none", loaded |-> Absent, data |-> Absent]
Quiet ==
  /\ pc = [p \in Procs |-> "idle"]
  /\ job = [p \in Procs |-> NoJob]
  /\ lastWrite = NoWrite

\* Nothing has run yet.
Fresh ==
  /\ clock = 0
  /\ prev = file
  /\ cmd = "none"
  /\ args = <<>>
  /\ exit = 0
  /\ out = <<>>
  /\ loads = <<>>
  /\ saves = <<>>
  /\ wrote = FALSE
  /\ lines = <<>>

\* Before the first invocation the store file is absent, or holds something
\* the program did not write: text that is no JSON, or JSON that is no array.
Init ==
  /\ file \in {Absent, Corrupt} \cup {NonArr(k) : k \in NonArrayKinds}
  /\ Fresh
  /\ Quiet

Next == RunAdd \/ RunList \/ RunComplete \/ RunRemove \/ RunInit

Spec == Init /\ [][Next]_vars

\* ------------------------------------------------- concurrent invocations
\* Two processes each run one mutating command on the same file.  A handler
\* is synchronous, but the other process may run between its readFileSync and
\* its writeFileSync: RaceLoad is a handler up to the call of saveTasks,
\* RaceSave is the write and the rest of the handler.
MutatingCommands == {"add", "complete", "remove"}

\* The handler of command c.
Handle(c, a, f, now, rnd, readErr, writeErr) ==
  IF c = "add" THEN add(a, f, now, rnd, readErr, writeErr)
  ELSE IF c = "complete" THEN complete(a, f, now, readErr, writeErr)
  ELSE remove(a, f, readErr, writeErr)

CommandArgs(c) == IF c = "add" THEN AddArgs ELSE NumberArgs

RaceLoad(p) ==
  /\ pc[p] = "idle"
  /\ \E c \in MutatingCommands, rnd \in Randoms, readErr \in BOOLEAN :
       \E a \in CommandArgs(c) :
         LET r == Handle(c, a, file, clock + 1, rnd, readErr, FALSE)
         IN /\ pc' = [pc EXCEPT ![p] = IF r.saves = <<>> THEN "done" ELSE "loaded"]
            /\ job' = [job EXCEPT ![p] =
                         [cmd |-> c,
                          loaded |-> IF r.loads = <<>> THEN Absent ELSE r.loads[1],
                          saving |-> r.saves # <<>>,
                          data |-> IF r.saves = <<>> THEN Absent ELSE r.saves[1],
                          exit |-> r.exit, wrote |-> FALSE]]
  /\ clock' = clock + 1
  /\ UNCHANGED <<file, lastWrite, hist>>

RaceSave(p) ==
  /\ pc[p] = "loaded"
  /\ \E writeErr \in BOOLEAN :
       LET s == saveTasks(file, job[p].data, writeErr)
       IN /\ file' = s.file
          /\ job' = [job EXCEPT ![p].wrote = ~s.err]
          /\ lastWrite' = IF s.err THEN lastWrite
                          ELSE [proc |-> p, cmd |-> job[p].cmd,
                                loaded |-> job[p].loaded, data |-> job[p].data]
  /\ pc' = [pc EXCEPT ![p] = "done"]
  /\ UNCHANGED <<clock, hist>>

\* The stores the two processes may find: none, and those that add, add and
\* complete 1 leave one after the other.
Built(n) ==
  LET s1 == add(<<sA>>, Absent, 1, 0, FALSE, FALSE).file
      s2 == add(<<sA, sAddHigh>>, s1, 2, 0, FALSE, FALSE).file
      s3 == complete(<<Numeral(1)>>, s2, 3, FALSE, FALSE).file
  IN IF n = 0 THEN Absent ELSE IF n = 1 THEN s1 ELSE IF n = 2 THEN s2 ELSE s3

InitRace ==
  /\ \E n \in 0..3 :
       /\ file = Built(n)
       /\ clock = n
       /\ prev = file
  /\ cmd = "none"
  /\ args = <<>>
  /\ exit = 0
  /\ out = <<>>
  /\ loads = <<>>
  /\ saves = <<>>
  /\ wrote = FALSE
  /\ lines = <<>>
  /\ Quiet

NextRace == \E p \in Procs : RaceLoad(p) \/ RaceSave(p)

SpecRace == InitRace /\ [][NextRace]_vars

\* ------------------------------------------------------------- properties
\* The last invocation printed message m.
Printed(m) == \E i \in 1..Len(out) : out[i] = m
\* The store file holds a sequence of tasks (none when it is absent).
IsStore(f) == f.kind \in {"absent", "array"}
\* The last invocation loaded the file without error.
LoadedOk == loads = <<Arr(prev.tasks)>> /\ ~Printed("Error loading tasks")
NoCompleted(tasks) == \A i \in 1..Len(tasks) : ~tasks[i].completed

\* C1: on a store of k tasks, complete <x> and remove <x> with x not a number,
\* below 1 or above k exit with status 1, never reach saveTasks and leave the
\* store file as it was.
C1_InvalidIndexRejected ==
  (/\ cmd \in {"complete", "remove"}
   /\ IsStore(prev)
   /\ Len(args) >= 1
   /\ LET n == ParseInt(args[1])
      IN n.nan \/ n.val < 1 \/ n.val > Len(prev.tasks))
  => exit = 1 /\ saves = <<>> /\ ~wrote /\ file = prev

\* remove 3 was refused on a readable store of two tasks.
C1_Witness ==
  /\ cmd = "remove"
  /\ prev.kind = "array" /\ Len(prev.tasks) = 2
  /\ args = <<Numeral(3)>>
  /\ LoadedOk
  /\ Printed("Invalid task number")
  /\ exit = 1 /\ file = prev

\* C2: add with an empty title (no argument that is not a flag) fails with the
\* usage error and status 1 and leaves the store as it was.
C2_EmptyTitleRejected ==
  (cmd = "add" /\ IsStore(prev) /\ Title(args) = <<>>)
  => exit = 1 /\ Printed("Usage: taskly add") /\ file = prev

\* The new task of the last add, as the claim describes it.
IsNewTask(t) ==
  /\ t.title = Title(args)
  /\ t.priority = (IF \E i \in 1..Len(args) : StartsWith(args[i], sPriorityEq)
                   THEN LET i == CHOOSE j \in 1..Len(args) :
                                   /\ StartsWith(args[j], sPriorityEq)
                                   /\ \A k \in 1..(j - 1) : ~StartsWith(args[k], sPriorityEq)
                        IN SubSeq(args[i], Len(sPriorityEq) + 1, Len(args[i]))
                   ELSE sLow)
  /\ t.completed = FALSE
  /\ "completedAt" \notin DOMAIN t

\* The file holds the previous tasks, unchanged and in order, then the new task.
AddedToPrev ==
  /\ file.kind = "array"
  /\ Len(file.tasks) = Len(prev.tasks) + 1
  /\ SubSeq(file.tasks, 1, Len(prev.tasks)) = prev.tasks
  /\ IsNewTask(file.tasks[Len(file.tasks)])

\* C3 as stated: whatever the state of the store file, a successful add that
\* wrote the file leaves the k previous tasks followed by the new one.
C3_AddAppendsAlways ==
  (cmd = "add" /\ exit = 0 /\ wrote /\ IsStore(prev)) => AddedToPrev

\* C3 amended: the same when the file was absent or was read without error;
\* after a failed read a successful add leaves the new task alone, and after a
\* failed write it leaves the file as it was.
C3_AddAppends ==
  (cmd = "add" /\ exit = 0 /\ IsStore(prev))
  => /\ (wrote /\ LoadedOk) => AddedToPrev
     /\ (wrote /\ ~LoadedOk)
          => file.kind = "array" /\ Len(file.tasks) = 1 /\ IsNewTask(file.tasks[1])
     /\ ~wrote => file = prev

\* An add grew a readable store of two tasks to three.
C3_Witness ==
  /\ cmd = "add" /\ exit = 0 /\ wrote /\ LoadedOk
  /\ prev.kind = "array" /\ Len(prev.tasks) = 2
  /\ AddedToPrev
  /\ file.tasks[3].priority = sHigh

\* The task number of the last complete or remove, when it names a task of
\* the store v that was loaded; 0 otherwise.
TaskNumber(v) ==
  IF Len(args) = 0 \/ v.kind # "array" THEN 0
  ELSE LET n == ParseInt(args[1])
       IN IF ~n.nan /\ n.val >= 1 /\ n.val <= Len(v.tasks) THEN n.val ELSE 0

\* t is the pending task u, completed now: completed and completedAt are set
\* and nothing else differs.
CompletedNow(t, u) ==
  /\ DOMAIN t = DOMAIN u \cup {"completedAt"}
  /\ t.completed = TRUE /\ t.completedAt = clock
  /\ t.id = u.id /\ t.title = u.title /\ t.priority = u.priority
  /\ t.created = u.created

\* C4: complete n, having loaded a store whose task n is pending, saves that
\* store with completed and completedAt set on task n and no other task
\* changed (the file holds it once the write succeeds); complete n on a task
\* that is already completed exits 0, saves nothing and leaves the file, and
\* so its completedAt, as it was.
C4_CompleteIdempotent ==
  (cmd = "complete" /\ Len(loads) = 1 /\ TaskNumber(loads[1]) > 0)
  => LET v == loads[1]
         n == TaskNumber(v)
     IN IF v.tasks[n].completed
        THEN exit = 0 /\ saves = <<>> /\ ~wrote /\ file = prev
        ELSE /\ exit = 0
             /\ Len(saves) = 1 /\ saves[1].kind = "array"
             /\ Len(saves[1].tasks) = Len(v.tasks)
             /\ CompletedNow(saves[1].tasks[n], v.tasks[n])
             /\ \A i \in 1..Len(v.tasks) : i # n => saves[1].tasks[i] = v.tasks[i]
             /\ file = (IF wrote THEN saves[1] ELSE prev)

\* A second complete 1 found the task completed earlier and left it alone.
C4_Witness ==
  /\ cmd = "complete" /\ args = <<Numeral(1)>>
  /\ LoadedOk
  /\ Printed("Task is already completed!")
  /\ file.tasks[1].completed /\ file.tasks[1].completedAt < clock
  /\ exit = 0

\* The sequence s without its n-th element.
Without(s, n) == [i \in 1..(Len(s) - 1) |-> IF i < n THEN s[i] ELSE s[i + 1]]

\* C5: remove n with 1 <= n <= k, having loaded a store of k tasks, saves the
\* k-1 others: the tasks before position n keep their positions, those after
\* it move down by one, none changes (the file holds them once the write
\* succeeds); and what list then numbers is 1..count with no gap.
C5_RemoveShifts ==
  /\ (cmd = "remove" /\ Len(loads) = 1 /\ TaskNumber(loads[1]) > 0)
     => LET v == loads[1]
            n == TaskNumber(v)
        IN /\ exit = 0
           /\ saves = <<Arr(Without(v.tasks, n))>>
           /\ Len(saves[1].tasks) = Len(v.tasks) - 1
           /\ file = (IF wrote THEN saves[1] ELSE prev)
  /\ (cmd = "list" /\ Filter(args) = "all" /\ lines # <<>>)
     => /\ Len(lines) = Len(loads[1].tasks)
        /\ \A k \in 1..Len(lines) : lines[k].num = k

\* remove 2 took the middle task out of a readable store of three.
C5_Witness ==
  /\ cmd = "remove" /\ args = <<Numeral(2)>> /\ exit = 0 /\ wrote
  /\ LoadedOk
  /\ prev.kind = "array" /\ Len(prev.tasks) = 3
  /\ file = Arr(<<prev.tasks[1], prev.tasks[3]>>)

\* C6: the number list prints for a task is the task's position in the stored
\* sequence, whatever the filter.
C6_ListNumberIsPosition ==
  cmd = "list" => \A k \in 1..Len(lines) : lines[k].num = lines[k].pos

\* C7 as stated: list --completed on a store with no completed task, empty or
\* not, prints the "no completed tasks" message and exits 0.
C7_NoCompletedMessageAlways ==
  (/\ cmd = "list" /\ Includes(args, sCompleted)
   /\ IsStore(prev) /\ LoadedOk /\ NoCompleted(prev.tasks))
  => exit = 0 /\ Printed("No completed tasks found.")

\* C7 amended: list --completed exits 0 in both cases; it prints the "no
\* completed tasks" message when the store it loaded has tasks and none is
\* completed, and the "no tasks" message, without it, when that store is empty.
C7_NoCompletedMessage ==
  (/\ cmd = "list" /\ Includes(args, sCompleted)
   /\ Len(loads) = 1 /\ loads[1].kind = "array" /\ NoCompleted(loads[1].tasks))
  => /\ exit = 0
     /\ Printed("No completed tasks found.") <=> loads[1].tasks # <<>>
     /\ Printed("No tasks found.") <=> loads[1].tasks = <<>>

\* list --completed on a readable store of two pending tasks.
C7_Witness ==
  /\ cmd = "list" /\ args = <<sCompleted>>
  /\ LoadedOk /\ Len(prev.tasks) = 2 /\ NoCompleted(prev.tasks)
  /\ Printed("No completed tasks found.")
  /\ exit = 0

\* C8: whatever the store file holds, loadTasks yields a sequence of tasks and
\* list ends with exit status 0.
C8_ListAlwaysExitsZero ==
  cmd = "list" => exit = 0 /\ Len(loads) = 1 /\ loads[1].kind = "array"

\* C10: in every store the commands build, a task has completedAt exactly when
\* it is completed; a task of the file that was in it before the last
\* invocation (the same id) has the title, priority and created it had, and if
\* it was completed it is as it was; list and init save nothing and leave the
\* file as it was.
C10_TaskLifecycle ==
  /\ file.kind = "array"
     => \A i \in 1..Len(file.tasks) :
          LET t == file.tasks[i]
          IN /\ ("completedAt" \in DOMAIN t) <=> t.completed
             /\ \A j \in 1..Len(prev.tasks) :
                  LET u == prev.tasks[j]
                  IN t.id = u.id
                     => /\ t.title = u.title /\ t.priority = u.priority
                        /\ t.created = u.created
                        /\ u.completed => t = u
  /\ cmd \in {"list", "init"} => saves = <<>> /\ ~wrote /\ file = prev

\* complete 2 completed the second of two tasks whose first was completed before.
C10_Witness ==
  /\ cmd = "complete" /\ args = <<Numeral(2)>> /\ wrote
  /\ Len(file.tasks) = 2
  /\ prev.tasks[1].completed /\ ~prev.tasks[2].completed
  /\ file.tasks[1] = prev.tasks[1]
  /\ file.tasks[2].completed /\ file.tasks[2].completedAt = clock

\* C9: when two invocations interleave their loads and saves, the file is
\* exactly what the process that saved last handed to saveTasks, which it
\* computed from what it had loaded and from nothing saved since; and every
\* process that reached its save ends with exit status 0, whatever the other
\* did in between.
C9_LastWriterWins ==
  /\ lastWrite.proc # 0
     => /\ file = lastWrite.data
        /\ lastWrite.cmd = "add"
           => SubSeq(file.tasks, 1, Len(file.tasks) - 1) = lastWrite.loaded.tasks
        /\ lastWrite.cmd = "remove"
           => \E n \in 1..Len(lastWrite.loaded.tasks) :
                file.tasks = Without(lastWrite.loaded.tasks, n)
        /\ (lastWrite.cmd = "complete" /\ file.kind = "array")
           => /\ Len(file.tasks) = Len(lastWrite.loaded.tasks)
              /\ \A i \in 1..Len(file.tasks) :
                   file.tasks[i].id = lastWrite.loaded.tasks[i].id
  /\ \A p \in Procs : (pc[p] = "done" /\ job[p].saving) => job[p].exit = 0

\* Both processes loaded the same store of two tasks and added a task; both
\* writes succeeded and both exited 0; the file holds what process 2 saved,
\* and the task process 1 added is gone.
C9_Witness ==
  /\ pc = [p \in Procs |-> "done"]
  /\ job[1].cmd = "add" /\ job[2].cmd = "add"
  /\ job[1].wrote /\ job[2].wrote
  /\ job[1].exit = 0 /\ job[2].exit = 0
  /\ Len(job[1].loaded.tasks) = 2 /\ job[2].loaded = job[1].loaded
  /\ lastWrite.proc = 2
  /\ file = job[2].data
  /\ \A i \in 1..Len(file.tasks) : file.tasks[i] # job[1].data.tasks[3]

====
